---- MODULE Spec2Model ----
(***************************************************************************)
(* RemindX (src/RemindX_Final.ino): the control loop of an access / motion *)
(* alert controller.  One call of loop() is one step of the model.  The    *)
(* variables are the sketch's globals, the two statics of buttonPressed(), *)
(* the two output pins and the millisecond clock.                          *)
(***************************************************************************)
EXTENDS Integers, Sequences, FiniteSets, TLC

\* ----------------------------------------------------------------- constants

LOW  == "LOW"
HIGH == "HIGH"
Levels == {LOW, HIGH}

uid1 == <<7, 182, 82, 141>>
uid2 == <<250, 142, 253, 198>>
uid3 == <<220, 172, 193, 1>>

uidSize == 4
motionCooldown == 1500
MOTION_THRESHOLD_CM == 20
vipDuration == 30000
buzzerInterval == 1000
debounceMs == 40

\* delay() at the end of each path of loop()
delayAckButton == 200
delayAlertCard == 200
delayBlink == 20
delayCardScan == 100
delayIdle == 40

\* ----------------------------------------------------------------- bounds

\* a loop() iteration takes at most MaxOverhead ms on top of its delay()
\* (pulseIn waits up to 50 ms, plus serial and SPI traffic)
MaxOverhead == 60
\* how many identifiers outside the allow-list the reader can deliver
NumUnknown == 1
\* by how many ms millis() can have advanced between `now` (line 94) and the
\* second buttonPressed() (line 122)
MaxSkew == 1

\* The instants (ms since boot) at which an observed loop() iteration may start.
Times ==
  {40, 80, 140}              \* start-up: inside, at and past the debounce window
  \cup {1541, 1581, 1661}    \* first cooldown over: alert, press, acknowledgment
  \cup {2541, 3042}          \* blink period over, second cooldown over
  \cup {31662}               \* a VIP window started at 1661 has run out

\* identifiers outside the allow-list: uid1 with its last byte changed
Unknown == { <<7, 182, 82, k>> : k \in 1..NumUnknown }
NoCard == <<>>
Cards == {uid1, uid2, uid3} \cup Unknown

\* echo pulse widths in microseconds; 0 is pulseIn's timeout
Pulses == {0, 30, 900, 1200, 1300}

VARIABLES
  alertActive, lastMotionTime,
  card1Scanned, card2Scanned, card3Scanned,
  vipMode, vipStartTime,
  buzzerState, lastBuzzerToggle,
  lastBounce, lastState,       \* statics of buttonPressed()
  ledPin, buzzerPin,           \* levels last written to LED_PIN and BUZZER_PIN
  clock,                       \* millis() when the last loop() call returned
  now,                         \* `now` of the last loop() call
  reported,                    \* history: a poll returned true since the level was last sampled HIGH
  seenLevel, seenChange,       \* history: the level last sampled, and since when
  presented,                   \* history: credentials read while not in VIP mode since the last reset
  cooldownFrom,                \* history: time of the last alert raised or idle card scan, -1 if none
  ev                           \* what the last loop() call read and did

progVars == <<alertActive, lastMotionTime, card1Scanned, card2Scanned, card3Scanned,
              vipMode, vipStartTime, buzzerState, lastBuzzerToggle,
              lastBounce, lastState, ledPin, buzzerPin>>
vars == <<progVars, clock, now, reported, seenLevel, seenChange, presented, cooldownFrom, ev>>

\* the program state as one record, so that the steps of loop() are operators
Prog ==
  [ alertActive |-> alertActive, lastMotionTime |-> lastMotionTime,
    card1Scanned |-> card1Scanned, card2Scanned |-> card2Scanned,
    card3Scanned |-> card3Scanned,
    vipMode |-> vipMode, vipStartTime |-> vipStartTime,
    buzzerState |-> buzzerState, lastBuzzerToggle |-> lastBuzzerToggle,
    lastBounce |-> lastBounce, lastState |-> lastState,
    ledPin |-> ledPin, buzzerPin |-> buzzerPin ]

\* ----------------------------------------------------------------- helpers

\* compareUID(a, b, size): all of the first `size` bytes are equal
RECURSIVE compareUIDFrom(_, _, _, _)
compareUIDFrom(a, b, i, size) ==
  IF i > size THEN TRUE
  ELSE IF a[i] # b[i] THEN FALSE
  ELSE compareUIDFrom(a, b, i + 1, size)

compareUID(a, b, size) == compareUIDFrom(a, b, 1, size)

\* readDistanceCM() for an echo of `dur` microseconds: -1 on timeout, else
\* dur * 0.034 / 2 truncated to a long (17/1000 cm per microsecond)
readDistanceCM(dur) ==
  IF dur = 0 THEN -1 ELSE (dur * 17) \div 1000

\* faulty variant: the debounce timer is not restarted when the level changes
buttonPressed_NoRestart(ls, lb, cur, t) ==
  LET fire == (t - lb) > debounceMs /\ cur = LOW
  IN  [ ret |-> fire, lastBounce |-> lb, lastState |-> cur ]

\* buttonPressed() with statics (ls, lb), sampling level cur while millis() = t
buttonPressed(ls, lb, cur, t) ==
  LET changed == cur # ls
      lb1 == IF changed THEN t ELSE lb
      ls1 == IF changed THEN cur ELSE ls
      fire == (t - lb1) > debounceMs /\ cur = LOW
  IN  [ ret |-> fire, lastBounce |-> lb1, lastState |-> IF fire THEN LOW ELSE ls1 ]

\* ----------------------------------------------------------------- steps of loop()

\* faulty variant: a press switches VIP mode on without noting the start time
vipManual_KeepsStart(p, pressed, t) ==
  IF pressed /\ ~p.vipMode
  THEN [p EXCEPT !.vipMode = TRUE]
  ELSE p

\* lines 97-101: manual VIP, given the result of the first buttonPressed()
vipManual(p, pressed, t) ==
  IF pressed /\ ~p.vipMode
  THEN [p EXCEPT !.vipMode = TRUE, !.vipStartTime = t]
  ELSE p

\* faulty variant: the automatic activation does not note the start time
vipAuto_KeepsStart(p, t) ==
  IF ~p.vipMode /\ p.card1Scanned /\ p.card2Scanned /\ p.card3Scanned
  THEN [p EXCEPT !.vipMode = TRUE]
  ELSE p

\* lines 104-108: automatic VIP once all three cards have been scanned
vipAuto(p, t) ==
  IF ~p.vipMode /\ p.card1Scanned /\ p.card2Scanned /\ p.card3Scanned
  THEN [p EXCEPT !.vipMode = TRUE, !.vipStartTime = t]
  ELSE p

\* faulty variant: the expiration switches the LED off even during an alert
vipExpire_LedOff(p, t) ==
  IF p.vipMode /\ t - p.vipStartTime > vipDuration
  THEN [p EXCEPT !.vipMode = FALSE,
                 !.card1Scanned = FALSE, !.card2Scanned = FALSE, !.card3Scanned = FALSE,
                 !.ledPin = LOW]
  ELSE p

\* faulty variant: the expiration forgets to clear the third scan flag
vipExpire_KeepsCard3(p, t) ==
  IF p.vipMode /\ t - p.vipStartTime > vipDuration
  THEN [p EXCEPT !.vipMode = FALSE,
                 !.card1Scanned = FALSE, !.card2Scanned = FALSE,
                 !.ledPin = IF ~p.alertActive THEN LOW ELSE @]
  ELSE p

\* lines 111-118: VIP expiration
vipExpire(p, t) ==
  IF p.vipMode /\ t - p.vipStartTime > vipDuration
  THEN [p EXCEPT !.vipMode = FALSE,
                 !.card1Scanned = FALSE, !.card2Scanned = FALSE, !.card3Scanned = FALSE,
                 !.ledPin = IF ~p.alertActive THEN LOW ELSE @]
  ELSE p

\* faulty variant: the button acknowledgment forgets to switch the buzzer off
alertButton_KeepsBuzzer(p) ==
  [p EXCEPT !.alertActive = FALSE,
            !.ledPin = IF p.vipMode THEN HIGH ELSE LOW]

\* lines 123-125: acknowledgment by button
alertButton(p) ==
  [p EXCEPT !.alertActive = FALSE,
            !.buzzerPin = LOW,
            !.ledPin = IF p.vipMode THEN HIGH ELSE LOW]

\* faulty variant: the acknowledging card is also recorded in the scan flags
alertCard_RecordsScan(p, uid) ==
  IF compareUID(uid, uid1, uidSize) \/ compareUID(uid, uid2, uidSize)
       \/ compareUID(uid, uid3, uidSize)
  THEN [p EXCEPT !.alertActive = FALSE, !.buzzerPin = LOW, !.ledPin = HIGH,
                 !.card1Scanned = IF compareUID(uid, uid1, uidSize) THEN TRUE ELSE @,
                 !.card2Scanned = IF compareUID(uid, uid2, uidSize) THEN TRUE ELSE @,
                 !.card3Scanned = IF compareUID(uid, uid3, uidSize) THEN TRUE ELSE @]
  ELSE p

\* faulty variant: any card read while alerting acknowledges the alert
alertCard_AnyCard(p, uid) ==
  [p EXCEPT !.alertActive = FALSE, !.buzzerPin = LOW, !.ledPin = HIGH]

\* lines 132-138: a card read while alerting
alertCard(p, uid) ==
  IF compareUID(uid, uid1, uidSize) \/ compareUID(uid, uid2, uidSize)
       \/ compareUID(uid, uid3, uidSize)
  THEN [p EXCEPT !.alertActive = FALSE, !.buzzerPin = LOW, !.ledPin = HIGH]
  ELSE p

\* lines 145-155: buzzer blinking, LED on
buzzerBlink(p, t) ==
  LET q == IF ~p.vipMode
           THEN IF t - p.lastBuzzerToggle >= buzzerInterval
                THEN [p EXCEPT !.buzzerState = ~p.buzzerState,
                               !.buzzerPin = IF ~p.buzzerState THEN HIGH ELSE LOW,
                               !.lastBuzzerToggle = t]
                ELSE p
           ELSE [p EXCEPT !.buzzerPin = LOW]
  IN  [q EXCEPT !.ledPin = HIGH]

\* faulty variant: the idle card scan does not restart the motion cooldown
cardScan_KeepsCooldown(p, uid, t) ==
  [p EXCEPT !.card1Scanned = IF compareUID(uid, uid1, uidSize) THEN TRUE ELSE @,
            !.card2Scanned = IF compareUID(uid, uid2, uidSize) THEN TRUE ELSE @,
            !.card3Scanned = IF compareUID(uid, uid3, uidSize) THEN TRUE ELSE @,
            !.ledPin = HIGH]

\* lines 171-176: a card read while idle
cardScan(p, uid, t) ==
  [p EXCEPT !.card1Scanned = IF compareUID(uid, uid1, uidSize) THEN TRUE ELSE @,
            !.card2Scanned = IF compareUID(uid, uid2, uidSize) THEN TRUE ELSE @,
            !.card3Scanned = IF compareUID(uid, uid3, uidSize) THEN TRUE ELSE @,
            !.ledPin = HIGH,
            !.lastMotionTime = t]

\* line 184: the motion cooldown has elapsed
cooldownElapsed(p, t) == t - p.lastMotionTime > motionCooldown

\* faulty variant: motion raises the alert without looking at vipMode
motionDetect_IgnoresVip(p, dist, t) ==
  IF dist > 0 /\ dist <= MOTION_THRESHOLD_CM
  THEN [p EXCEPT !.alertActive = TRUE,
                 !.buzzerState = TRUE,
                 !.lastBuzzerToggle = t,
                 !.buzzerPin = HIGH,
                 !.ledPin = HIGH,
                 !.lastMotionTime = t]
  ELSE p

\* lines 186-201: a distance reading dist after the cooldown
motionDetect(p, dist, t) ==
  IF dist > 0 /\ dist <= MOTION_THRESHOLD_CM
  THEN LET q == IF ~p.vipMode
                THEN [p EXCEPT !.alertActive = TRUE,
                               !.buzzerState = TRUE,
                               !.lastBuzzerToggle = t,
                               !.buzzerPin = HIGH,
                               !.ledPin = HIGH]
                ELSE [p EXCEPT !.ledPin = HIGH]
       IN  [q EXCEPT !.lastMotionTime = t]
  ELSE p

\* the statics of buttonPressed() after a call that returned b
withButton(p, b) ==
  [p EXCEPT !.lastState = b.lastState, !.lastBounce = b.lastBounce]

\* lines 96-118: the VIP part of loop(), b1 the first buttonPressed()
loopVip(p0, b1, t) ==
  vipExpire(vipAuto(vipManual(withButton(p0, b1), b1.ret, t), t), t)

\* What lines 96-118 did, seen from the states before (p0) and after (pd):
\* how VIP mode was switched on, whether it ran out, and the scan flags and
\* the LED level as line 118 leaves them.
vipReport(p0, pd, b1) ==
  [ vipOn  |-> IF p0.vipMode THEN "no"
               ELSE IF b1.ret THEN "button"
               ELSE IF pd.vipMode THEN "auto"
               ELSE "no",
    vipOff |-> p0.vipMode /\ ~pd.vipMode,
    midCards |-> <<pd.card1Scanned, pd.card2Scanned, pd.card3Scanned>>,
    midLed |-> pd.ledPin,
    pressed1 |-> b1.ret ]

\* what a loop() call did, besides the new program state: the path taken and
\* its delay(), the result of the second buttonPressed() (FALSE if not called),
\* how often the button was polled, whether the reader was polled and the card
\* halted, whether the sensor was sampled and what it read
Report(v, path, d, pr2, polls, polled, halted, sampled, dist) ==
  [ path |-> path, delay |-> d, pressed1 |-> v.pressed1, pressed2 |-> pr2,
    polls |-> polls, polled |-> polled, halted |-> halted,
    sampled |-> sampled, dist |-> dist,
    vipOn |-> v.vipOn, vipOff |-> v.vipOff,
    midCards |-> v.midCards, midLed |-> v.midLed ]

\* faulty variant: the card reader is polled before the button result is looked at
alertHandling_CardFirst(pe, b2, t, uid, v) ==
  IF uid # NoCard
  THEN [ p |-> alertCard(pe, uid),
         ev |-> Report(v, "alertCard", delayAlertCard, b2.ret, 2, TRUE, TRUE, FALSE, -1) ]
  ELSE IF b2.ret
  THEN [ p |-> alertButton(pe),
         ev |-> Report(v, "ackButton", delayAckButton, b2.ret, 2, TRUE, FALSE, FALSE, -1) ]
  ELSE [ p |-> buzzerBlink(pe, t),
         ev |-> Report(v, "blink", delayBlink, b2.ret, 2, TRUE, FALSE, FALSE, -1) ]

\* lines 121-158: alert handling; pe is the state after the second
\* buttonPressed(), which returned b2
alertHandling(pe, b2, t, uid, v) ==
  IF b2.ret
  THEN [ p |-> alertButton(pe),
         ev |-> Report(v, "ackButton", delayAckButton, b2.ret, 2, FALSE, FALSE, FALSE, -1) ]
  ELSE IF uid # NoCard
  THEN [ p |-> alertCard(pe, uid),
         ev |-> Report(v, "alertCard", delayAlertCard, b2.ret, 2, TRUE, TRUE, FALSE, -1) ]
  ELSE [ p |-> buzzerBlink(pe, t),
         ev |-> Report(v, "blink", delayBlink, b2.ret, 2, TRUE, FALSE, FALSE, -1) ]

\* lines 160-204: card scan and motion detection while idle
idleHandling(pd, t, uid, dist, v) ==
  IF uid # NoCard
  THEN [ p |-> cardScan(pd, uid, t),
         ev |-> Report(v, "cardScan", delayCardScan, FALSE, 1, TRUE, TRUE, FALSE, -1) ]
  ELSE IF cooldownElapsed(pd, t)
  THEN [ p |-> motionDetect(pd, dist, t),
         ev |-> Report(v, "motion", delayIdle, FALSE, 1, TRUE, FALSE, TRUE, dist) ]
  ELSE [ p |-> pd,
         ev |-> Report(v, "idle", delayIdle, FALSE, 1, TRUE, FALSE, FALSE, -1) ]

\* faulty variant: the second poll does not report a press that the first poll
\* of the same call has reported
alertPoll_Latched(pd, b2, t, uid, v) ==
  alertHandling(withButton(pd, b2), [b2 EXCEPT !.ret = b2.ret /\ ~v.pressed1], t, uid, v)

\* the second buttonPressed() and what follows it
alertPoll(pd, b2, t, uid, v) ==
  alertHandling(withButton(pd, b2), b2, t, uid, v)

\* lines 120-204, from the state pd that lines 94-118 leave
loopRest(pd, t, raw2, tb2, uid, dur, v) ==
  IF pd.alertActive
  THEN alertPoll(pd, buttonPressed(pd.lastState, pd.lastBounce, raw2, tb2), t, uid, v)
  ELSE idleHandling(pd, t, uid, readDistanceCM(dur), v)

loopMid(p0, pd, b1, t, raw2, tb2, uid, dur) ==
  loopRest(pd, t, raw2, tb2, uid, dur, vipReport(p0, pd, b1))

loopFrom(p0, b1, t, raw2, tb2, uid, dur) ==
  loopMid(p0, loopVip(p0, b1, t), b1, t, raw2, tb2, uid, dur)

\* loop(): one iteration started at millis() = t.  The button level is raw1 at
\* the first buttonPressed() (millis() = tb1) and raw2 at the second (tb2), the
\* card at the reader is uid (NoCard: none), and the echo lasts dur
\* microseconds if the sensor is sampled.
loop(p0, t, raw1, tb1, raw2, tb2, uid, dur) ==
  loopFrom(p0, buttonPressed(p0.lastState, p0.lastBounce, raw1, tb1), t, raw2, tb2, uid, dur)

\* ----------------------------------------------------------------- state machine

\* static initialisers (lines 21-35, 57-58) and setup() (lines 82-87); the
\* history variables start as the pulled-up input and the empty registry
Init ==
  /\ alertActive = FALSE
  /\ lastMotionTime = 0
  /\ card1Scanned = FALSE /\ card2Scanned = FALSE /\ card3Scanned = FALSE
  /\ vipMode = FALSE
  /\ vipStartTime = 0
  /\ buzzerState = FALSE
  /\ lastBuzzerToggle = 0
  /\ lastBounce = 0
  /\ lastState = HIGH
  /\ ledPin = LOW
  /\ buzzerPin = LOW
  /\ clock = 0
  /\ now = 0
  /\ reported = FALSE
  /\ seenLevel = HIGH
  /\ seenChange = 0
  /\ presented = {}
  /\ cooldownFrom = -1
  /\ ev = [ path |-> "setup", delay |-> 0, pressed1 |-> FALSE, pressed2 |-> FALSE,
            polls |-> 0, polled |-> FALSE, halted |-> FALSE,
            sampled |-> FALSE, dist |-> -1, vipOn |-> "no", vipOff |-> FALSE,
            midCards |-> <<FALSE, FALSE, FALSE>>, midLed |-> LOW,
            raw1 |-> HIGH, raw2 |-> HIGH, card |-> NoCard, held1 |-> 0, held2 |-> 0, gap |-> 0, skew |-> 0 ]

\* An iteration in which nothing is touched (the button stays at the level
\* last sampled, no card, no echo) and which leaves the program state as it is.
QuietAt(u) ==
  loop(Prog, u, lastState, u, lastState, u, NoCard, 0).p = Prog

\* loop() runs back to back: the next iteration starts when the last one's
\* delay() is over, at most MaxOverhead later.  A later start t stands for a run
\* of quiet iterations in between, none of which changed anything; the timed
\* conditions of loop() only become true as time passes, so it is enough that
\* an iteration at t - 1 would still have been quiet.
GapOk(t) ==
  /\ t >= clock
  /\ (t - clock <= MaxOverhead \/ QuietAt(t - 1))

\* history of the button input, independent of buttonPressed()'s statics:
\* the level last sampled and the time it was first sampled at that level
levelAfter(h, raw, t) ==
  IF raw # h.level THEN [level |-> raw, since |-> t] ELSE h

\* `reported` after a poll that sampled raw and returned ret
reportedAfter(rep, raw, ret) ==
  IF raw = HIGH THEN FALSE ELSE IF ret THEN TRUE ELSE rep

\* the allow-listed credentials the reader has delivered while vipMode was
\* false since the scan flags were last reset, in any path of loop()
presentedAfter(seen, e, uid, vip) ==
  LET kept == IF e.vipOff THEN {} ELSE seen
  IN  IF e.polled /\ uid \in {uid1, uid2, uid3} /\ ~vip THEN kept \cup {uid} ELSE kept

\* `cooldownFrom` after a loop() call r started at t: the call raised an alert
\* (line 188) or handled a card while idle (lines 161-181)
cooldownAfter(from, r, t) ==
  IF (~alertActive /\ r.p.alertActive) \/ r.ev.path = "cardScan" THEN t ELSE from

\* The new state after one loop() call r that took the given path, started at
\* t with the button at raw1, then raw2, and card uid at the reader.
Commit(r, path, t, raw1, raw2, tb2, uid) ==
  /\ r.ev.path = path
  /\ alertActive' = r.p.alertActive
  /\ lastMotionTime' = r.p.lastMotionTime
  /\ card1Scanned' = r.p.card1Scanned
  /\ card2Scanned' = r.p.card2Scanned
  /\ card3Scanned' = r.p.card3Scanned
  /\ vipMode' = r.p.vipMode
  /\ vipStartTime' = r.p.vipStartTime
  /\ buzzerState' = r.p.buzzerState
  /\ lastBuzzerToggle' = r.p.lastBuzzerToggle
  /\ lastBounce' = r.p.lastBounce
  /\ lastState' = r.p.lastState
  /\ ledPin' = r.p.ledPin
  /\ buzzerPin' = r.p.buzzerPin
  /\ now' = t
  /\ clock' = t + r.ev.delay
  /\ cooldownFrom' = cooldownAfter(cooldownFrom, r, t)
  /\ LET two == r.ev.polls = 2
         h0 == [level |-> seenLevel, since |-> seenChange]
         h1 == levelAfter(h0, raw1, t)
         h2 == IF two THEN levelAfter(h1, raw2, tb2) ELSE h1
         rep1 == reportedAfter(reported, raw1, r.ev.pressed1)
     IN  /\ seenLevel' = h2.level
         /\ seenChange' = h2.since
         /\ reported' = IF two THEN reportedAfter(rep1, raw2, r.ev.pressed2) ELSE rep1
         /\ presented' = presentedAfter(presented, r.ev, uid, r.p.vipMode)
         /\ ev' = [ path |-> r.ev.path, delay |-> r.ev.delay,
                    pressed1 |-> r.ev.pressed1, pressed2 |-> r.ev.pressed2,
                    polls |-> r.ev.polls, polled |-> r.ev.polled, halted |-> r.ev.halted,
                    sampled |-> r.ev.sampled, dist |-> r.ev.dist,
                    vipOn |-> r.ev.vipOn, vipOff |-> r.ev.vipOff,
                    midCards |-> r.ev.midCards, midLed |-> r.ev.midLed,
                    raw1 |-> raw1, raw2 |-> IF two THEN raw2 ELSE raw1,
                    card |-> uid,
                    held1 |-> IF r.ev.pressed1 THEN t - h1.since ELSE 0,
                    held2 |-> IF r.ev.pressed2 THEN tb2 - h2.since ELSE 0,
                    skew |-> IF two THEN tb2 - t ELSE 0,
                    gap |-> IF ~alertActive /\ r.p.alertActive /\ cooldownFrom >= 0
                            THEN t - cooldownFrom ELSE 0 ]

\* One loop() call.  The first buttonPressed() reads millis() a few
\* microseconds after loop() read `now` and sees t; by the second one, at tb2,
\* the clock can have advanced.
Step(path, t, raw1, raw2, tb2, uid, dur) ==
  Commit(loop(Prog, t, raw1, t, raw2, tb2, uid, dur), path, t, raw1, raw2, tb2, uid)

\* alert handling, acknowledged by the button (lines 121-129); the reader is
\* not polled, whatever card is at it
TickAckButton ==
  /\ alertActive
  /\ \E t \in Times : GapOk(t) /\ \E raw1 \in Levels, raw2 \in Levels,
                                     tb2 \in t..(t + MaxSkew),
                                     uid \in Cards \cup {NoCard} :
       Step("ackButton", t, raw1, raw2, tb2, uid, 0)

\* alert handling, a card is read (lines 131-142)
TickAlertCard ==
  /\ alertActive
  /\ \E t \in Times : GapOk(t) /\ \E raw1 \in Levels, raw2 \in Levels,
                                     tb2 \in t..(t + MaxSkew), uid \in Cards :
       Step("alertCard", t, raw1, raw2, tb2, uid, 0)

\* alert handling, nothing acknowledges: blink (lines 144-157)
TickBlink ==
  /\ alertActive
  /\ \E t \in Times : GapOk(t) /\ \E raw1 \in Levels, raw2 \in Levels,
                                     tb2 \in t..(t + MaxSkew) :
       Step("blink", t, raw1, raw2, tb2, NoCard, 0)

\* idle, a card is read (lines 161-181)
TickCardScan ==
  /\ ~alertActive
  /\ \E t \in Times : GapOk(t) /\ \E raw1 \in Levels, uid \in Cards :
       Step("cardScan", t, raw1, raw1, t, uid, 0)

\* idle, no card, cooldown over: the sensor is sampled (lines 184-204)
TickMotion ==
  /\ ~alertActive
  /\ \E t \in Times : GapOk(t) /\ \E raw1 \in Levels, dur \in Pulses :
       Step("motion", t, raw1, raw1, t, NoCard, dur)

\* idle, no card, still cooling down (lines 184, 204)
TickIdle ==
  /\ ~alertActive
  /\ \E t \in Times : GapOk(t) /\ \E raw1 \in Levels :
       Step("idle", t, raw1, raw1, t, NoCard, 0)

Next ==
  \/ TickAckButton
  \/ TickAlertCard
  \/ TickBlink
  \/ TickCardScan
  \/ TickMotion
  \/ TickIdle

Spec == Init /\ [][Next]_vars

\* ----------------------------------------------------------------- claims

Allowed == {uid1, uid2, uid3}

\* the reader delivered an allow-listed credential in the last loop() call
KnownCardRead == ev.polled /\ ev.card \in Allowed

\* C1: an alert is cleared only by a loop() call in which the acknowledgment
\* poll of the button returned true or the reader delivered an allow-listed
\* credential; nothing else (VIP switching on or running out, an unknown card,
\* the sensor, time) turns alertActive from true to false.
C1_AlertUntilAcknowledged ==
  [][ (alertActive /\ ~alertActive') =>
        (ev'.pressed2 \/ (ev'.polled /\ ev'.card \in Allowed)) ]_vars

\* C1 witness: the VIP window ran out in a call that found the alert active,
\* and the alert is still active after it
C1_Witness ==
  alertActive /\ ev.vipOff /\ ev.path = "blink"

\* C2 (the claim as stated): once a poll has returned true, no later poll
\* returns true while every level sampled since is LOW.  `reported` says that
\* a poll returned true and no HIGH has been sampled since.
C2_OncePerPress ==
  [][ /\ (reported /\ ev'.raw1 = LOW) => ~ev'.pressed1
      /\ (ev'.polls = 2 /\ ev'.raw1 = LOW /\ ev'.raw2 = LOW /\ (reported \/ ev'.pressed1))
           => ~ev'.pressed2 ]_vars

\* C3: buttonPressed() returns true only when it samples LOW and the sampled
\* level has not changed for at least 40 ms (held1, held2: for how long the
\* level had been the same when the first, second poll returned true).
C3_DebounceSuppressesBounce ==
  /\ ev.pressed1 => (ev.raw1 = LOW /\ ev.held1 >= 40)
  /\ ev.pressed2 => (ev.raw2 = LOW /\ ev.held2 >= 40)

\* C3 witness: a poll returned true, and an earlier state of the same press
\* (LOW for exactly 40 ms) is the one in C3_WitnessSuppressed
C3_Witness ==
  ev.pressed1 /\ ev.raw1 = LOW /\ ev.held1 > 40

C3_WitnessSuppressed ==
  ev.raw1 = LOW /\ ~ev.pressed1 /\ seenLevel = LOW /\ now - seenChange = 40

\* C4 (the claim as stated): a loop() call that starts idle and not in VIP
\* mode, sees no button press and no card, samples the sensor (the cooldown is
\* over) and gets any reading of at most 20 cm ends alerting, buzzer and LED
\* HIGH, lastMotionTime = now, buzzerState true and lastBuzzerToggle = now.
C4_AlertTrigger ==
  [][ (/\ ~alertActive /\ ~vipMode
       /\ ev'.path = "motion" /\ ~ev'.pressed1
       /\ ev'.dist >= 0 /\ ev'.dist <= 20)
      => (/\ alertActive' /\ buzzerPin' = HIGH /\ ledPin' = HIGH
          /\ lastMotionTime' = now'
          /\ buzzerState' /\ lastBuzzerToggle' = now') ]_vars

\* C4, readings of 1 to 20 cm only: what the code does do
C4_AlertTriggerPositive ==
  [][ (/\ ~alertActive /\ ~vipMode
       /\ ev'.path = "motion" /\ ~ev'.pressed1
       /\ ev'.dist >= 1 /\ ev'.dist <= 20)
      => (/\ alertActive' /\ buzzerPin' = HIGH /\ ledPin' = HIGH
          /\ lastMotionTime' = now'
          /\ buzzerState' /\ lastBuzzerToggle' = now') ]_vars

\* a second alert raised after the blink state was left off by an earlier one
C4_WitnessPositive ==
  alertActive /\ ev.path = "motion" /\ ev.dist = 15 /\ now > 1541

\* C5: a loop() call that reaches the motion check in VIP mode raises no alert
\* and leaves the buzzer LOW and the blink state alone, whatever the reading;
\* a reading the code takes as motion (1 to 20 cm) lights the LED and resets
\* lastMotionTime.  No call that ends in VIP mode goes from idle to alerting.
C5_VipSuppressesMotion ==
  [][ /\ (ev'.path = "motion" /\ vipMode')
         => (/\ ~alertActive'
             /\ buzzerPin' = LOW
             /\ buzzerState' = buzzerState
             /\ lastBuzzerToggle' = lastBuzzerToggle
             /\ (ev'.dist >= 1 /\ ev'.dist <= 20)
                  => (ledPin' = HIGH /\ lastMotionTime' = now'))
      /\ (~alertActive /\ alertActive') => ~vipMode' ]_vars

\* C5 witness: in VIP mode a reading of 15 cm lit the LED (dark until then),
\* reset the cooldown and raised no alert
C5_Witness ==
  /\ ev.path = "motion" /\ vipMode /\ ev.dist = 15
  /\ ~alertActive /\ buzzerPin = LOW
  /\ ev.midLed = LOW /\ ledPin = HIGH /\ lastMotionTime = now

\* the scan flags as a set of credentials
Registry ==
  (IF card1Scanned THEN {uid1} ELSE {})
    \cup (IF card2Scanned THEN {uid2} ELSE {})
    \cup (IF card3Scanned THEN {uid3} ELSE {})

\* the credential the idle card scan of the last loop() call recorded, if any
ScannedNow ==
  IF ev.path = "cardScan" /\ ev.card \in Allowed THEN {ev.card} ELSE {}

NoneSet == <<FALSE, FALSE, FALSE>>

\* C6 (the claim as stated): once the reader has delivered each of the three
\* allow-listed credentials while not in VIP mode since the last reset of the
\* flags, the next loop() call ends in VIP mode; and VIP mode is switched on
\* by the scan flags only after all three have been delivered.
C6_AutoVipAfterThreeScans ==
  [][ /\ (presented = Allowed /\ ~vipMode) => vipMode'
      /\ (ev'.vipOn = "auto") => (presented = Allowed) ]_vars

\* C6, scans in idle calls only: what the code does do
C6_AutoVipAfterThreeIdleScans ==
  [][ /\ (Registry = Allowed /\ ~vipMode) => (vipMode' /\ vipStartTime' = now')
      /\ (ev'.vipOn = "auto") => (Registry = Allowed /\ presented = Allowed) ]_vars

C6_WitnessIdleScans ==
  ev.vipOn = "auto" /\ vipMode /\ vipStartTime = now

\* C7: in a loop() call that takes vipMode from true to false the VIP window
\* has run out (nothing else ends VIP mode), line 113 leaves all three scan
\* flags false and, if no alert was active, line 117 leaves the LED LOW; so
\* after the call the flags hold at most the credential its own idle card
\* scan recorded, nothing scanned during the window.
C7_ExpiryResetsRegistry ==
  [][ (vipMode /\ ~vipMode')
      => (/\ now' - vipStartTime > 30000
          /\ ev'.vipOff
          /\ ev'.midCards = NoneSet
          /\ (~alertActive => ev'.midLed = LOW)
          /\ Registry' = ScannedNow') ]_vars

\* C7 witness: the window ran out while idle with the LED lit; flags and LED
\* are off after the call
C7_Witness ==
  /\ ev.vipOff /\ ~vipMode /\ ~alertActive
  /\ ev.path = "motion" /\ ev.dist = -1 /\ Registry = {} /\ ledPin = LOW

\* C8 (the claim as stated): vipStartTime is the time of the call that
\* switched VIP mode on, stays as it is while VIP mode is on, and the first
\* call more than 30000 ms later ends with VIP mode off and no scan flag set.
C8_VipTimeBounded ==
  [][ /\ (~vipMode /\ vipMode') => vipStartTime' = now'
      /\ (vipMode /\ vipMode') => vipStartTime' = vipStartTime
      /\ (vipMode /\ now' - vipStartTime > 30000)
           => (~vipMode' /\ Registry' = {}) ]_vars

\* C8 as amended: ... ends with VIP mode off and every scan flag set before
\* that call cleared; only the credential scanned by that call's own idle
\* card scan, which runs after the expiration, is recorded.
C8_VipTimeBoundedAmended ==
  [][ /\ (~vipMode /\ vipMode') => vipStartTime' = now'
      /\ (vipMode /\ vipMode') => vipStartTime' = vipStartTime
      /\ (vipMode /\ now' - vipStartTime > 30000)
           => (~vipMode' /\ ev'.midCards = NoneSet /\ Registry' = ScannedNow')
      /\ (vipMode /\ now' - vipStartTime <= 30000) => vipMode' ]_vars

\* C8 witness: 30001 ms after VIP mode was switched on a call ended it, and
\* the card it scanned is the only one recorded
C8_Witness ==
  /\ ev.vipOff /\ ~vipMode /\ now - vipStartTime = 30001
  /\ ev.path = "cardScan" /\ ev.card = uid1 /\ Registry = {uid1}

\* C9: when the acknowledgment poll returns true with an allow-listed card at
\* the reader, the call takes the button path: the alert is cleared, the
\* buzzer is LOW, the LED follows vipMode, and the reader is neither polled
\* nor halted.
C9_ButtonBeforeCard ==
  (ev.polls = 2 /\ ev.pressed2 /\ ev.card \in Allowed)
    => (/\ ev.path = "ackButton"
        /\ ~alertActive /\ buzzerPin = LOW
        /\ ledPin = (IF vipMode THEN HIGH ELSE LOW)
        /\ ~ev.polled /\ ~ev.halted)

C9_Witness ==
  ev.path = "ackButton" /\ ev.pressed2 /\ ev.card = uid2 /\ ~ev.polled /\ ~alertActive

\* C10 (the claim as stated): an allow-listed credential read while alerting
\* and not in VIP mode leaves the controller idle, buzzer LOW, LED HIGH, and
\* that credential's scan flag set.
C10_AckScanRecorded ==
  [][ (alertActive /\ ~vipMode /\ ~vipMode'
         /\ ev'.path = "alertCard" /\ ev'.card \in Allowed)
      => (/\ ~alertActive' /\ buzzerPin' = LOW /\ ledPin' = HIGH
          /\ ev'.card \in Registry') ]_vars

\* C10, without the flag: what the code does do
C10_AckScanClearsAlert ==
  [][ (alertActive /\ ~vipMode /\ ~vipMode'
         /\ ev'.path = "alertCard" /\ ev'.card \in Allowed)
      => (/\ ~alertActive' /\ buzzerPin' = LOW /\ ledPin' = HIGH
          /\ Registry' = Registry) ]_vars

\* uid2 acknowledged the alert outside VIP mode and its scan flag is not set
C10_Witness ==
  /\ ev.path = "alertCard" /\ ev.card = uid2 /\ ~vipMode
  /\ ~alertActive /\ buzzerPin = LOW /\ ledPin = HIGH /\ ~card2Scanned

\* what C11 compares: alertActive, vipMode, the scan flags, lastMotionTime and
\* the two outputs of a program state
Observable(p) ==
  <<p.alertActive, p.vipMode, p.card1Scanned, p.card2Scanned, p.card3Scanned,
    p.lastMotionTime, p.ledPin, p.buzzerPin>>

\* the same loop() call with no card at the reader and an echo of dur microseconds
sameTickNoCard(p0, e, t, dur) ==
  loop(p0, t, e.raw1, t, e.raw2, t + e.skew, NoCard, dur).p

\* C11 (the claim as stated): a loop() call in which the reader delivers an
\* identifier outside the allow-list ends with alertActive, vipMode, the scan
\* flags, lastMotionTime, LED and buzzer as the same call with no card would
\* have left them (for some echo, if that call samples the sensor).
C11_UnknownCardInert ==
  [][ (ev'.polled /\ ev'.card \in Unknown)
      => \E dur \in Pulses :
           Observable(Prog)' = Observable(sameTickNoCard(Prog, ev', now', dur)) ]_vars

\* C11, what the code does do: an unknown card changes neither alertActive nor
\* the buzzer, and vipMode and the scan flags only as lines 96-118 of the call do
C11_UnknownCardKeeps ==
  [][ (ev'.polled /\ ev'.card \in Unknown)
      => (/\ alertActive' = alertActive
          /\ buzzerPin' = buzzerPin
          /\ <<card1Scanned', card2Scanned', card3Scanned'>> = ev'.midCards
          /\ (ev'.path = "alertCard" => ledPin' = ev'.midLed /\ lastMotionTime' = lastMotionTime)
          /\ (ev'.path = "cardScan" => ledPin' = HIGH /\ lastMotionTime' = now')) ]_vars

\* an unknown card read while idle and cooling down lit the LED and restarted
\* the cooldown
C11_Witness ==
  /\ ev.path = "cardScan" /\ ev.card \in Unknown /\ ev.midLed = LOW
  /\ ledPin = HIGH /\ lastMotionTime = now /\ now = 80

\* C12 (the claim as stated): after every loop() call that ends in VIP mode
\* the buzzer output is LOW.
C12_VipSilencesBuzzer ==
  vipMode => buzzerPin = LOW

\* C12, what the code does do: in VIP mode the buzzer is HIGH only while an
\* alert is active and the last call returned from the card branch of the
\* alert handling with an unknown card (line 141), before the blink scheduler
C12_VipBuzzerOnlyAfterUnknownCard ==
  (vipMode /\ buzzerPin = HIGH)
    => (alertActive /\ ev.path = "alertCard" /\ ev.card \in Unknown)

\* a known card read while alerting in VIP mode left the buzzer LOW
C12_Witness ==
  vipMode /\ ev.path = "alertCard" /\ ev.card \in Allowed /\ buzzerPin = LOW

\* the buzzer was toggled by the call: blink state inverted, written to the
\* pin, lastBuzzerToggle = now
Toggled ==
  /\ buzzerState' = ~buzzerState
  /\ buzzerPin' = (IF buzzerState' THEN HIGH ELSE LOW)
  /\ lastBuzzerToggle' = now'

NotToggled ==
  /\ buzzerState' = buzzerState
  /\ buzzerPin' = buzzerPin
  /\ lastBuzzerToggle' = lastBuzzerToggle

\* C13 (the claim as stated): a loop() call that finds the alert active, leaves
\* it active and is not in VIP mode toggles the buzzer if now is at least
\* 1000 ms after the last toggle and does not toggle it otherwise, whatever
\* else the call reads.
C13_BlinkCadence ==
  [][ (alertActive /\ alertActive' /\ ~vipMode')
      => IF now' - lastBuzzerToggle >= 1000 THEN Toggled ELSE NotToggled ]_vars

\* C13, what the code does do: the same for the calls that reach the blink
\* scheduler (no card read); a call that reads a card never toggles
C13_BlinkCadenceNoCard ==
  [][ (alertActive /\ alertActive' /\ ~vipMode')
      => IF ev'.path = "blink" /\ now' - lastBuzzerToggle >= 1000
         THEN Toggled ELSE NotToggled ]_vars

\* the buzzer was switched off exactly 1000 ms after the alert switched it on
C13_Witness ==
  /\ alertActive /\ ~vipMode /\ ev.path = "blink"
  /\ lastBuzzerToggle = now /\ ~buzzerState /\ buzzerPin = LOW /\ now = 2541

\* C14 (the claim as stated): a loop() call that starts idle, stays out of VIP
\* mode, reads no card and samples the sensor raises the alert if and only if
\* there was an echo (readDistanceCM() returns -1 exactly when pulseIn timed
\* out) and the reading is at most 20 cm, a reading truncated to 0 included.
C14_DetectionThreshold ==
  [][ (~alertActive /\ ~vipMode /\ ~vipMode' /\ ev'.path = "motion")
      => (alertActive' <=> (ev'.dist >= 0 /\ ev'.dist <= MOTION_THRESHOLD_CM)) ]_vars

\* C14, what the code does do: the alert is raised exactly for readings of
\* 1 to 20 cm; a timeout and a reading truncated to 0 raise none
C14_DetectionThresholdPositive ==
  [][ (~alertActive /\ ~vipMode /\ ~vipMode' /\ ev'.path = "motion")
      => (alertActive' <=> (ev'.dist >= 1 /\ ev'.dist <= MOTION_THRESHOLD_CM)) ]_vars

\* an echo of 1200 microseconds (20.4 cm, read as 20) raised the alert
C14_Witness ==
  alertActive /\ ~vipMode /\ ev.path = "motion" /\ ev.dist = 20

\* an echo of 30 microseconds (read as 0 cm) raised none
C14_WitnessZero ==
  ~alertActive /\ ~vipMode /\ ev.path = "motion" /\ ev.dist = 0

\* C15: the sensor is sampled only when now - lastMotionTime > 1500; every
\* reading the code takes as motion (1 to 20 cm, alerting or suppressed by VIP
\* mode) and every idle card scan set lastMotionTime = now; so an alert is
\* raised more than 1500 ms after the last alert raised and after the last
\* card scan handled while idle.
C15_MotionCooldown ==
  [][ /\ ev'.sampled => now' - lastMotionTime > motionCooldown
      /\ (ev'.path = "motion" /\ ev'.dist >= 1 /\ ev'.dist <= MOTION_THRESHOLD_CM)
           => lastMotionTime' = now'
      /\ ev'.path = "cardScan" => lastMotionTime' = now'
      /\ (~alertActive /\ alertActive' /\ cooldownFrom >= 0)
           => now' - cooldownFrom > motionCooldown ]_vars

\* a second alert was raised 1501 ms after the first
C15_Witness ==
  alertActive /\ ev.path = "motion" /\ ev.gap = 1501 /\ now = 3042

\* C16: a loop() call whose acknowledgment poll (line 122) returns true ends
\* idle with the buzzer LOW and the LED HIGH exactly when it ends in VIP mode;
\* the acknowledgment leaves the scan flags (as lines 96-118 left them) and
\* lastMotionTime alone.
C16_ButtonAckEffect ==
  [][ ev'.pressed2
      => (/\ alertActive /\ ev'.path = "ackButton"
          /\ ~alertActive'
          /\ buzzerPin' = LOW
          /\ (ledPin' = HIGH <=> vipMode')
          /\ <<card1Scanned', card2Scanned', card3Scanned'>> = ev'.midCards
          /\ (~ev'.vipOff => Registry' = Registry)
          /\ lastMotionTime' = lastMotionTime) ]_vars

\* the button acknowledged an alert outside VIP mode (the window ran out in
\* the same call): buzzer and LED are both LOW
C16_Witness ==
  /\ ev.path = "ackButton" /\ ev.pressed2 /\ ~vipMode
  /\ ~alertActive /\ buzzerPin = LOW /\ ledPin = LOW

\* the acknowledging press also switched VIP mode on: the LED stays HIGH
C16_WitnessVip ==
  /\ ev.path = "ackButton" /\ ev.pressed2 /\ ev.vipOn = "button" /\ vipMode
  /\ ~alertActive /\ buzzerPin = LOW /\ ledPin = HIGH

\* C17: a loop() call that finds the alert active (line 121) does not sample
\* the sensor, sets no scan flag and leaves lastMotionTime alone, whether it
\* acknowledges, reads an unknown card or only blinks; and a call in which the
\* button or an allow-listed card acknowledged ends with the alert off.
C17_AlertTickNoDetection ==
  [][ alertActive
      => (/\ ev'.path \in {"ackButton", "alertCard", "blink"}
          /\ ~ev'.sampled
          /\ Registry' \subseteq Registry
          /\ <<card1Scanned', card2Scanned', card3Scanned'>> = ev'.midCards
          /\ lastMotionTime' = lastMotionTime
          /\ (ev'.pressed2 \/ (ev'.polled /\ ev'.card \in Allowed)) => ~alertActive') ]_vars

\* uid1 acknowledged an alert with the cooldown long over: no sample was
\* taken, no flag is set and lastMotionTime is still the time of the alert
C17_Witness ==
  /\ ev.path = "alertCard" /\ ev.card = uid1 /\ ~alertActive /\ ~ev.sampled
  /\ Registry = {} /\ now - lastMotionTime > motionCooldown

\* C18: in a loop() call that starts alerting and not in VIP mode, with the
\* button at the same level for both polls, a press the first poll reports is
\* reported by the second poll too: the call ends in VIP mode started at now,
\* the alert off, the buzzer LOW and the LED HIGH.  And such a call never ends
\* acknowledged by the button with VIP mode still off unless the first poll
\* returned false.
C18_PressDoesBoth ==
  [][ /\ (alertActive /\ ~vipMode /\ ev'.raw1 = ev'.raw2 /\ ev'.pressed1)
           => (/\ ev'.pressed2 /\ ev'.path = "ackButton"
               /\ vipMode' /\ vipStartTime' = now'
               /\ ~alertActive' /\ buzzerPin' = LOW /\ ledPin' = HIGH)
      /\ (alertActive /\ ~vipMode /\ ev'.pressed2 /\ ~vipMode')
           => ~ev'.pressed1 ]_vars

\* one press switched VIP mode on and acknowledged the alert in the same call
C18_Witness ==
  /\ ev.pressed1 /\ ev.pressed2 /\ ev.raw1 = LOW /\ ev.raw2 = LOW
  /\ ev.vipOn = "button" /\ vipMode /\ vipStartTime = now
  /\ ~alertActive /\ buzzerPin = LOW /\ ledPin = HIGH

\* the press was reported by the second poll only (the 40 ms ran out between
\* the polls): the alert is acknowledged and VIP mode stays off
C18_WitnessSecondPollOnly ==
  /\ ~ev.pressed1 /\ ev.pressed2 /\ ev.raw1 = LOW /\ ev.raw2 = LOW /\ ev.skew = 1
  /\ ev.vipOn = "no" /\ ~ev.vipOff /\ ~vipMode /\ ~alertActive /\ ledPin = LOW

\* C19: after every loop() call that ends with the alert active the LED is
\* HIGH; and a call that takes the LED from HIGH to LOW ends with the alert
\* off and is one in which the VIP window ran out or the button acknowledged.
C19_AlertLedOn ==
  [][ /\ alertActive' => ledPin' = HIGH
      /\ (ledPin = HIGH /\ ledPin' = LOW)
           => (~alertActive' /\ (ev'.vipOff \/ ev'.path = "ackButton")) ]_vars

\* the VIP window ran out during an alert: line 117 left the LED HIGH
C19_Witness ==
  /\ alertActive /\ ev.vipOff /\ ~vipMode /\ ev.midLed = HIGH /\ ledPin = HIGH
  /\ now = 31662

\* The alert paths of loop() with the button at the same level for both polls
\* of the call.
TickAckButtonSteady ==
  /\ alertActive
  /\ \E t \in Times : GapOk(t) /\ \E raw1 \in Levels, tb2 \in t..(t + MaxSkew),
                                     uid \in Cards \cup {NoCard} :
       Step("ackButton", t, raw1, raw1, tb2, uid, 0)

TickAlertCardSteady ==
  /\ alertActive
  /\ \E t \in Times : GapOk(t) /\ \E raw1 \in Levels, tb2 \in t..(t + MaxSkew),
                                     uid \in Cards :
       Step("alertCard", t, raw1, raw1, tb2, uid, 0)

TickBlinkSteady ==
  /\ alertActive
  /\ \E t \in Times : GapOk(t) /\ \E raw1 \in Levels, tb2 \in t..(t + MaxSkew) :
       Step("blink", t, raw1, raw1, tb2, NoCard, 0)

NextSteady ==
  \/ TickAckButtonSteady
  \/ TickAlertCardSteady
  \/ TickBlinkSteady
  \/ TickCardScan
  \/ TickMotion
  \/ TickIdle

\* loop() run with a button that never changes level between the two polls
\* of one call
SpecSteady == Init /\ [][NextSteady]_vars

\* C20: if the button is at the same level for both polls of every loop()
\* call, no call ends with the alert active in VIP mode, and the VIP branch of
\* the blink scheduler (line 152) is never taken.
C20_AlertVipExclusive ==
  /\ ~(alertActive /\ vipMode)
  /\ ev.path = "blink" => ~vipMode

\* the press that switched VIP mode on during an alert acknowledged it
C20_Witness ==
  /\ ev.path = "ackButton" /\ ev.raw1 = ev.raw2 /\ ev.vipOn = "button"
  /\ vipMode /\ ~alertActive /\ now = 1661

====
